---- MODULE Spec2Model ----
(***************************************************************************)
(* google/metaserver: the EC2 and NoCloud metadata renderers, their        *)
(* routers and the two backends they consume (VM registry, pubkey store).  *)
(*                                                                         *)
(* A request is one goroutine.  It suspends only inside its two blocking   *)
(* backend calls, so a request takes up to three steps: the router closure *)
(* up to the Find call (Accept), the return of Find up to the GetKeys call *)
(* or the response (FindReturns), the return of GetKeys up to the response *)
(* (GetKeysReturns).  The backends are external and may change between     *)
(* any two steps.                                                          *)
(*                                                                         *)
(* Text: a response body is the sequence of its lines, each a string.  A   *)
(* {key} path segment and a remote address are sequences of tokens, so     *)
(* that strconv.Atoi and strings.SplitN are computed, not assumed.         *)
(***************************************************************************)
EXTENDS Integers, Sequences, FiniteSets, TLC

\* ------------------------------------------------------------------ bounds
MaxRequests == 2
MaxChanges == 1
MaxKeys == 2

\* ------------------------------------------------------------- input sets
IPs == {"10.0.0.5", "192.168.1.1"}
RemoteAddrs == {<<"10.0.0.5", ":", "40000">>, <<"192.168.1.1", ":", "40000">>}
Names == {"vm-42", "vm-7"}
NoVM == "<not found>"

Key0 == [Algo |-> "ssh-rsa", Pubkey |-> "AAAA", Comment |-> "host1", Name |-> "k0"]
Key1 == [Algo |-> "ssh-ed25519", Pubkey |-> "BBBB", Comment |-> "host2", Name |-> "k1"]
PublicKeys == {Key0, Key1}

KeyLists == UNION {[1..n -> PublicKeys] : n \in 0..MaxKeys}

Digits == <<"0", "1", "2", "3", "4", "5", "6", "7", "8", "9">>

\* the {key} segments requested: every index up to MaxKeys, a negative
\* integer, and two segments that are no integer
KeySegments ==
    {<<Digits[d + 1]>> : d \in 0..MaxKeys} \cup {<<"-", "1">>, <<"x">>, <<"1", "x">>}

Ec2Routes ==
    {"/meta-data/", "/meta-data/hostname", "/meta-data/instance-id",
     "/meta-data/public-keys", "/meta-data/public-keys/",
     "/meta-data/public-keys/{key}/", "/meta-data/public-keys/{key}/openssh-key"}
Ec2KeyRoutes ==
    {"/meta-data/public-keys/{key}/", "/meta-data/public-keys/{key}/openssh-key"}
NoclRoutes == {"/meta-data", "/user-data"}

\* user-data templates: a sequence of nodes; "bad" is a node whose
\* evaluation fails (a field the data does not have)
Templates == {<<"hostname", "keys">>, <<"hostname", "bad", "keys">>}

dnsName == "example.org"

metadataKeys == <<"hostname", "instance-id", "public-keys">>

RedirectTarget == "http://169.254.169.254/2009-04-04/meta-data/public-keys/"

VARIABLES apiMode, userDataTemplate, vmreg, keystore, version, reqs

vars == <<apiMode, userDataTemplate, vmreg, keystore, version, reqs>>

\* the requests accepted so far
Requests == {reqs[i] : i \in 1..Len(reqs)}

\* ----------------------------------------------------------- conversions
DigitValue(c) == CHOOSE d \in 0..9 : Digits[d + 1] = c

IsDigit(c) == \E d \in 0..9 : Digits[d + 1] = c

RECURSIVE ParseDigits(_, _)
ParseDigits(s, acc) ==
    IF s = <<>> THEN acc ELSE ParseDigits(Tail(s), acc * 10 + DigitValue(Head(s)))

\* strconv.Atoi: an optional sign, then one or more decimal digits
Atoi(s) ==
    LET signed == s # <<>> /\ Head(s) \in {"+", "-"}
        ds == IF signed THEN Tail(s) ELSE s
    IN  IF ds = <<>> \/ \E i \in 1..Len(ds) : ~IsDigit(ds[i])
        THEN [err |-> TRUE, n |-> 0]
        ELSE [err |-> FALSE,
              n |-> IF signed /\ Head(s) = "-" THEN 0 - ParseDigits(ds, 0)
                    ELSE ParseDigits(ds, 0)]

\* fmt's %d
RECURSIVE Itoa(_)
Itoa(n) ==
    IF n < 0 THEN "-" \o Itoa(0 - n)
    ELSE IF n < 10 THEN Digits[n + 1]
    ELSE Itoa(n \div 10) \o Digits[(n % 10) + 1]

\* strings.SplitN(addr, ":", 2)[0]: the text before the first ":"
RECURSIVE SplitNFirst(_)
SplitNFirst(addr) ==
    IF addr = <<>> \/ Head(addr) = ":" THEN ""
    ELSE Head(addr) \o SplitNFirst(Tail(addr))

\* --------------------------------------------------------------- backends
NoReply == [err |-> FALSE, Name |-> "", Keys |-> <<>>]

\* a Find that answers from the reply an earlier request got for the address
vmregClientFindCached(ip, fail) ==
    LET earlier == {q \in Requests : q.remoteIP = ip /\ q.findCalls = 1 /\ ~q.found.err}
    IN  IF earlier # {} THEN (CHOOSE q \in earlier : TRUE).found
        ELSE IF fail \/ vmreg[ip] = NoVM THEN [NoReply EXCEPT !.err = TRUE]
        ELSE [NoReply EXCEPT !.Name = vmreg[ip]]

\* VMRegistryClient.Find by IP: the VM record, or an error when the lookup
\* finds no match or the transport fails
vmregClientFind(ip, fail) ==
    IF fail \/ vmreg[ip] = NoVM
    THEN [NoReply EXCEPT !.err = TRUE]
    ELSE [NoReply EXCEPT !.Name = vmreg[ip]]

\* PubkeyStoreClient.GetKeys by VM name: the ordered key list, or an error
pubkeystoreClientGetKeys(vmName, fail) ==
    IF fail \/ vmName \notin DOMAIN keystore
    THEN [NoReply EXCEPT !.err = TRUE]
    ELSE [NoReply EXCEPT !.Keys = keystore[vmName]]

\* -------------------------------------------------------------- responses
\* One request: the router's inputs, the handler's position (pc) and local
\* variables, the response written so far, and the record of the backend
\* calls served for it (findCalls, found, keysCalls, fetched).
NewRequest(addr, route, key) ==
    [remoteAddr |-> addr, route |-> route, key |-> key,
     pc |-> "start", remoteIP |-> "", keyIdx |-> 0, vmName |-> "",
     status |-> 0, body |-> <<>>, location |-> "", panicked |-> FALSE,
     findCalls |-> 0, found |-> NoReply, keysCalls |-> 0, fetched |-> NoReply,
     startVersion |-> version]

\* http.ResponseWriter.WriteHeader
WriteHeader(r, code) ==
    IF r.status = 0 THEN [r EXCEPT !.status = code] ELSE r

\* http.ResponseWriter.Write: the first write sends status 200
Write(r, lines) ==
    [WriteHeader(r, 200) EXCEPT !.body = r.body \o lines]

\* return from the handler
Return(r) == [r EXCEPT !.pc = "done"]

\* a run-time panic in the handler: net/http recovers it in the connection's
\* goroutine and closes the connection; nothing further is written
Panic(r) == [r EXCEPT !.pc = "done", !.panicked = TRUE]

\* http.Redirect for a GET request
Redirect(r, url, code) ==
    [WriteHeader([r EXCEPT !.location = url], code) EXCEPT
        !.body = <<"<a href=\"" \o url \o "\">Moved Permanently</a>.">>]

\* the blocking backend calls
FindRequest(r, ip) == [r EXCEPT !.pc = "find", !.remoteIP = ip]

GetKeysRequest(r, vmName) == [r EXCEPT !.pc = "getkeys", !.vmName = vmName]

renderString(str, r) == Write(r, <<str>>)

renderList(list, r) == Write(r, list)

\* -------------------------------------------------------------- ec2server
\* Every handler is one operator: called with pc = "start" it runs up to its
\* first backend call; called again with the reply of the call it waits in,
\* it runs on from there.

\* HandleMetadata handles /meta-data/
Ec2HandleMetadata(r) == Return(renderList(metadataKeys, r))

\* HandleHostname without the error check
HandleHostnameErrIgnored(r, ip, reply) ==
    IF r.pc = "start" THEN FindRequest(r, ip)
    ELSE Return(renderString(reply.Name, r))

\* HandleHostname handles /meta-data/hostname
HandleHostname(r, ip, reply) ==
    IF r.pc = "start" THEN FindRequest(r, ip)
    ELSE IF reply.err THEN Return(WriteHeader(r, 500))
    ELSE Return(renderString(reply.Name, r))

\* HandleInstanceID handles /meta-data/instance-id
HandleInstanceID(r, ip, reply) ==
    IF r.pc = "start" THEN FindRequest(r, ip)
    ELSE IF reply.err THEN Return(WriteHeader(r, 500))
    ELSE LET instanceID == "i-" \o reply.Name
         IN  Return(renderString(instanceID, r))

\* the listing counted from 1
PublicKeysListingFromOne(keys) ==
    [j \in 1..Len(keys) |-> Itoa(j) \o "=" \o keys[j].Name]

\* repl[i] = fmt.Sprintf("%d=%s", i, k.Name), i counted from 0
PublicKeysListing(keys) ==
    [j \in 1..Len(keys) |-> Itoa(j - 1) \o "=" \o keys[j].Name]

\* HandlePublicKeys handles /meta-data/public-keys/
HandlePublicKeys(r, ip, reply) ==
    IF r.pc = "start" THEN FindRequest(r, ip)
    ELSE IF r.pc = "find" THEN
        IF reply.err THEN Return(WriteHeader(r, 500))
        ELSE GetKeysRequest(r, reply.Name)
    ELSE IF reply.err THEN Return(WriteHeader(r, 500))
    ELSE Return(renderList(PublicKeysListing(reply.Keys), r))

\* HandlePublicKey with > for >= in the range check
HandlePublicKeyOffByOne(r, ip, keyIdx, reply) ==
    IF r.pc = "start" THEN FindRequest(r, ip)
    ELSE IF r.pc = "find" THEN
        IF reply.err THEN Return(WriteHeader(r, 500))
        ELSE GetKeysRequest(r, reply.Name)
    ELSE IF reply.err THEN Return(WriteHeader(r, 500))
    ELSE IF keyIdx > Len(reply.Keys) THEN Return(WriteHeader(r, 500))
    ELSE Return(renderString("openssh-key", r))

\* HandlePublicKey handles /meta-data/public-keys/{key}/
HandlePublicKey(r, ip, keyIdx, reply) ==
    IF r.pc = "start" THEN FindRequest(r, ip)
    ELSE IF r.pc = "find" THEN
        IF reply.err THEN Return(WriteHeader(r, 500))
        ELSE GetKeysRequest(r, reply.Name)
    ELSE IF reply.err THEN Return(WriteHeader(r, 500))
    ELSE IF keyIdx >= Len(reply.Keys) THEN Return(WriteHeader(r, 500))
    ELSE Return(renderString("openssh-key", r))

\* fmt.Sprintf("%s %s %s", key.Algo, key.Pubkey, key.Comment)
Ec2KeyString(key) == key.Algo \o " " \o key.Pubkey \o " " \o key.Comment

\* HandlePublicKeyData that checks the index against its own reply but reads
\* the key from a reply kept on the Server, which another request may have set
HandlePublicKeyDataSharedReply(r, ip, keyIdx, reply) ==
    IF r.pc = "start" THEN FindRequest(r, ip)
    ELSE IF r.pc = "find" THEN
        IF reply.err THEN Return(WriteHeader(r, 500))
        ELSE GetKeysRequest(r, reply.Name)
    ELSE IF reply.err THEN Return(WriteHeader(r, 500))
    ELSE IF keyIdx >= Len(reply.Keys) THEN Return(WriteHeader(r, 500))
    ELSE LET others == {q \in Requests : q.keysCalls = 1 /\ ~q.fetched.err}
             shared == IF others = {} THEN reply.Keys
                       ELSE (CHOOSE q \in others : TRUE).fetched.Keys
         IN  IF keyIdx + 1 \notin 1..Len(shared) THEN Panic(r)
             ELSE Return(renderString(Ec2KeyString(shared[keyIdx + 1]), r))

\* HandlePublicKeyData handles /meta-data/public-keys/{key}/openssh-key.
\* pkeys.Keys[keyIdx] is bounds-checked by the run time: an index outside
\* 0..len-1 panics.
HandlePublicKeyData(r, ip, keyIdx, reply) ==
    IF r.pc = "start" THEN FindRequest(r, ip)
    ELSE IF r.pc = "find" THEN
        IF reply.err THEN Return(WriteHeader(r, 500))
        ELSE GetKeysRequest(r, reply.Name)
    ELSE IF reply.err THEN Return(WriteHeader(r, 500))
    ELSE IF keyIdx >= Len(reply.Keys) THEN Return(WriteHeader(r, 500))
    ELSE IF keyIdx < 0 THEN Panic(r)
    ELSE LET key == reply.Keys[keyIdx + 1]
             keyString == Ec2KeyString(key)
         IN  Return(renderString(keyString, r))

\* the closure NewRouter binds to a {key} route: the index is parsed before
\* the handler is called, and kept in the closure while the handler runs
Ec2KeyRoute(r, reply) ==
    LET remoteIP == SplitNFirst(r.remoteAddr)
        parsed == Atoi(r.key)
    IN  IF r.pc = "start" /\ parsed.err THEN Return(WriteHeader(r, 500))
        ELSE LET q == [r EXCEPT !.keyIdx = parsed.n]
             IN  IF r.route = "/meta-data/public-keys/{key}/"
                 THEN HandlePublicKey(q, remoteIP, parsed.n, reply)
                 ELSE HandlePublicKeyData(q, remoteIP, parsed.n, reply)

\* a router without the public-keys redirect: the path is served as the listing
Ec2RouterNoRedirect(r, reply) ==
    LET remoteIP == SplitNFirst(r.remoteAddr)
    IN  CASE r.route = "/meta-data/" -> Ec2HandleMetadata(r)
          [] r.route = "/meta-data/hostname" -> HandleHostname(r, remoteIP, reply)
          [] r.route = "/meta-data/instance-id" -> HandleInstanceID(r, remoteIP, reply)
          [] r.route \in {"/meta-data/public-keys", "/meta-data/public-keys/"} ->
                HandlePublicKeys(r, remoteIP, reply)
          [] OTHER -> Ec2KeyRoute(r, reply)

\* ec2server.NewRouter: the closure bound to each route
Ec2Router(r, reply) ==
    LET remoteIP == SplitNFirst(r.remoteAddr)
    IN  CASE r.route = "/meta-data/" -> Ec2HandleMetadata(r)
          [] r.route = "/meta-data/hostname" -> HandleHostname(r, remoteIP, reply)
          [] r.route = "/meta-data/instance-id" -> HandleInstanceID(r, remoteIP, reply)
          [] r.route = "/meta-data/public-keys" ->
                Return(Redirect(r, RedirectTarget, 301))
          [] r.route = "/meta-data/public-keys/" -> HandlePublicKeys(r, remoteIP, reply)
          [] OTHER -> Ec2KeyRoute(r, reply)

\* ------------------------------------------------------------- noclserver
\* the key text with the label in it
NoclKeyStringWithName(key) ==
    key.Algo \o " " \o key.Pubkey \o " " \o key.Comment \o " " \o key.Name

\* keys[i] = fmt.Sprintf("%s %s %s", key.Algo, key.Pubkey, key.Comment)
NoclKeyString(key) == key.Algo \o " " \o key.Pubkey \o " " \o key.Comment

NoclKeyStrings(keys) == [j \in 1..Len(keys) |-> NoclKeyString(keys[j])]

\* the document with the bare name as instance id
MetadataBareName(vmName, keys) ==
    [LocalHostname |-> vmName, InstanceID |-> vmName, PublicKeys |-> keys]

\* Metadata{LocalHostname, InstanceID, PublicKeys}
Metadata(vmName, keys) ==
    [LocalHostname |-> vmName, InstanceID |-> "i-" \o vmName, PublicKeys |-> keys]

\* yaml.Marshal(md): a mapping with the keys local-hostname, instance-id and
\* public-keys, one line per scalar and one "- " line per list element
yamlMarshal(md) ==
    [err |-> FALSE,
     data |-> <<"local-hostname: " \o md.LocalHostname,
                "instance-id: " \o md.InstanceID>>
              \o (IF md.PublicKeys = <<>> THEN <<"public-keys: []">>
                  ELSE <<"public-keys:">>
                       \o [j \in 1..Len(md.PublicKeys) |-> "- " \o md.PublicKeys[j]])]

\* HandleMetadata handles /meta-data
NoclHandleMetadata(r, ip, reply) ==
    IF r.pc = "start" THEN FindRequest(r, ip)
    ELSE IF r.pc = "find" THEN
        IF reply.err THEN Return(WriteHeader(r, 500))
        ELSE GetKeysRequest(r, reply.Name)
    ELSE IF reply.err THEN Return(WriteHeader(r, 500))
    ELSE LET md == Metadata(r.vmName, NoclKeyStrings(reply.Keys))
             jsonData == yamlMarshal(md)
         IN  IF jsonData.err THEN Return(WriteHeader(r, 500))
             ELSE Return(Write(r, jsonData.data))

\* Template.Execute: the nodes are written in order to the buffer; the first
\* node that fails stops the execution, and what was written stays written
RECURSIVE Execute(_, _)
Execute(tmpl, data) ==
    IF tmpl = <<>> THEN [out |-> <<>>, err |-> FALSE]
    ELSE IF Head(tmpl) = "bad" THEN [out |-> <<>>, err |-> TRUE]
    ELSE LET rest == Execute(Tail(tmpl), data)
             here == IF Head(tmpl) = "hostname" THEN <<data.Hostname>>
                     ELSE data.PublicKeys
         IN  [out |-> here \o rest.out, err |-> rest.err]

\* HandleUserdata that calls Find again when Find fails
HandleUserdataRetry(r, ip, reply) ==
    IF r.pc = "start" THEN FindRequest(r, ip)
    ELSE IF r.pc = "find" THEN
        IF reply.err THEN FindRequest(r, ip)
        ELSE GetKeysRequest(r, reply.Name)
    ELSE IF reply.err THEN Return(WriteHeader(r, 500))
    ELSE Return(Write(r, <<>>))

\* HandleUserdata handles /user-data; the error of Execute is not looked at
HandleUserdata(r, ip, reply) ==
    IF r.pc = "start" THEN FindRequest(r, ip)
    ELSE IF r.pc = "find" THEN
        IF reply.err THEN Return(WriteHeader(r, 500))
        ELSE GetKeysRequest(r, reply.Name)
    ELSE IF reply.err THEN Return(WriteHeader(r, 500))
    ELSE LET userDataBuffer ==
                 Execute(userDataTemplate,
                         [Hostname |-> r.vmName \o "." \o dnsName,
                          PublicKeys |-> NoclKeyStrings(reply.Keys)])
         IN  Return(Write(r, userDataBuffer.out))

\* noclserver.NewRouter: the closure bound to each route
NoclRouter(r, reply) ==
    LET remoteIP == SplitNFirst(r.remoteAddr)
    IN  IF r.route = "/meta-data" THEN NoclHandleMetadata(r, remoteIP, reply)
        ELSE HandleUserdata(r, remoteIP, reply)

\* main: the router of the serving mode
Serve(r, reply) ==
    IF apiMode = "ec2" THEN Ec2Router(r, reply) ELSE NoclRouter(r, reply)

\* ---------------------------------------------------------------- actions
Init ==
    /\ apiMode \in {"ec2", "nocloud"}
    /\ userDataTemplate \in
           (IF apiMode = "ec2" THEN {<<"hostname", "keys">>} ELSE Templates)
    /\ vmreg = [ip \in IPs |-> IF ip = "10.0.0.5" THEN "vm-42" ELSE NoVM]
    /\ keystore = [n \in Names |-> IF n = "vm-42" THEN <<Key0>> ELSE <<>>]
    /\ version = 0
    /\ reqs = <<>>

\* a request arrives and its goroutine runs up to its first backend call
Accept(addr, route, key) ==
    /\ Len(reqs) < MaxRequests
    /\ route \in (IF apiMode = "ec2" THEN Ec2Routes ELSE NoclRoutes)
    /\ key \in (IF route \in Ec2KeyRoutes THEN KeySegments ELSE {<<>>})
    /\ reqs' = Append(reqs, Serve(NewRequest(addr, route, key), NoReply))
    /\ UNCHANGED <<apiMode, userDataTemplate, vmreg, keystore, version>>

\* the VM registry answers the Find call of request i
FindReturns(i, fail) ==
    /\ i \in 1..Len(reqs)
    /\ reqs[i].pc = "find"
    /\ LET reply == vmregClientFind(reqs[i].remoteIP, fail)
           r == [reqs[i] EXCEPT !.findCalls = @ + 1, !.found = reply]
       IN  reqs' = [reqs EXCEPT ![i] = Serve(r, reply)]
    /\ UNCHANGED <<apiMode, userDataTemplate, vmreg, keystore, version>>

\* the pubkey store answers the GetKeys call of request i
GetKeysReturns(i, fail) ==
    /\ i \in 1..Len(reqs)
    /\ reqs[i].pc = "getkeys"
    /\ LET reply == pubkeystoreClientGetKeys(reqs[i].vmName, fail)
           r == [reqs[i] EXCEPT !.keysCalls = @ + 1, !.fetched = reply]
       IN  reqs' = [reqs EXCEPT ![i] = Serve(r, reply)]
    /\ UNCHANGED <<apiMode, userDataTemplate, vmreg, keystore, version>>

\* the registry's record for an address changes
RegistryChanges(ip, vm) ==
    /\ version < MaxChanges
    /\ vm # vmreg[ip]
    /\ vmreg' = [vmreg EXCEPT ![ip] = vm]
    /\ version' = version + 1
    /\ UNCHANGED <<apiMode, userDataTemplate, keystore, reqs>>

\* the pubkey store's list for a VM changes
KeystoreChanges(name, keys) ==
    /\ version < MaxChanges
    /\ keys # keystore[name]
    /\ keystore' = [keystore EXCEPT ![name] = keys]
    /\ version' = version + 1
    /\ UNCHANGED <<apiMode, userDataTemplate, vmreg, reqs>>

Next ==
    \/ \E addr \in RemoteAddrs, route \in Ec2Routes \cup NoclRoutes,
          key \in KeySegments \cup {<<>>} : Accept(addr, route, key)
    \/ \E i \in 1..MaxRequests, fail \in BOOLEAN : FindReturns(i, fail)
    \/ \E i \in 1..MaxRequests, fail \in BOOLEAN : GetKeysReturns(i, fail)
    \/ \E ip \in IPs, vm \in Names \cup {NoVM} : RegistryChanges(ip, vm)
    \/ \E name \in Names, keys \in KeyLists : KeystoreChanges(name, keys)

Spec == Init /\ [][Next]_vars

\* One request against backends that hold any records and do not change
\* while it runs: what a single request does, whatever the backends hold.
InitAny ==
    /\ apiMode \in {"ec2", "nocloud"}
    /\ userDataTemplate \in
           (IF apiMode = "ec2" THEN {<<"hostname", "keys">>} ELSE Templates)
    /\ vmreg \in [IPs -> Names \cup {NoVM}]
    /\ keystore \in [Names -> KeyLists]
    /\ version = 0
    /\ reqs = <<>>

AcceptFirst(addr, route, key) ==
    /\ reqs = <<>>
    /\ Accept(addr, route, key)

NextOne ==
    \/ \E addr \in RemoteAddrs, route \in Ec2Routes \cup NoclRoutes,
          key \in KeySegments \cup {<<>>} : AcceptFirst(addr, route, key)
    \/ \E fail \in BOOLEAN : FindReturns(1, fail)
    \/ \E fail \in BOOLEAN : GetKeysReturns(1, fail)

SpecOne == InitAny /\ [][NextOne]_vars

\* ----------------------------------------------------------------- claims
Done(r) == r.pc = "done"

\* the caller's address as the connection gives it, before the port
CallerIP(r) == r.remoteAddr[1]

\* the key fetch of r returned a list
Fetched(r) == r.keysCalls = 1 /\ ~r.fetched.err

\* the text "algo material comment" of a key
KeyText(key) == key.Algo \o " " \o key.Pubkey \o " " \o key.Comment

\* the backend has not changed since r arrived
Unchanged(r) == r.startVersion = version

\* C1: on the two {key} routes a 200 is given only for a {key} that parses
\* as an integer in 0..n-1, n the number of keys fetched, and then
\* public-keys/{key}/ answers exactly "openssh-key".
C1_OnlyIndexInRangeGets200 ==
    \A r \in Requests :
        (r.route \in Ec2KeyRoutes /\ Done(r) /\ r.status = 200) =>
            /\ ~Atoi(r.key).err
            /\ Fetched(r)
            /\ Atoi(r.key).n \in 0..(Len(r.fetched.Keys) - 1)
            /\ (r.route = "/meta-data/public-keys/{key}/"
                    => r.body = <<"openssh-key">>)

\* C2: on the two {key} routes a {key} that is no integer, or an integer
\* >= n for the n keys fetched, is answered 500 with no body.
C2_BadIndexIs500 ==
    \A r \in Requests :
        (/\ r.route \in Ec2KeyRoutes
         /\ Done(r)
         /\ \/ Atoi(r.key).err
            \/ Fetched(r) /\ Atoi(r.key).n >= Len(r.fetched.Keys)) =>
            r.status = 500 /\ r.body = <<>> /\ ~r.panicked

C2_Witness ==
    \E r \in Requests :
        /\ r.route = "/meta-data/public-keys/{key}/openssh-key"
        /\ Done(r) /\ Fetched(r)
        /\ r.key = <<"1">> /\ Len(r.fetched.Keys) = 1
        /\ r.status = 500

\* the user-data template fails part way through
TemplateFails == \E i \in 1..Len(userDataTemplate) : userDataTemplate[i] = "bad"

\* C3: every finished request has exactly one response: 200 with the
\* complete body, 301 (only public-keys without slash), or 500 with an empty
\* body; no handler crashes.
C3_EveryRequestAnswered ==
    \A r \in Requests :
        Done(r) =>
            /\ ~r.panicked
            /\ \/ r.status = 200 /\ ~(r.route = "/user-data" /\ TemplateFails)
               \/ r.status = 301 /\ r.route = "/meta-data/public-keys"
               \/ r.status = 500 /\ r.body = <<>>

\* C4 as stated: when the registry has no VM for the caller's address, every
\* endpoint answers 500 with an empty body.
C4_LookupFailureEveryEndpoint500 ==
    \A r \in Requests :
        (Done(r) /\ Unchanged(r) /\ vmreg[CallerIP(r)] = NoVM) =>
            r.status = 500 /\ r.body = <<>>

ResolvingRoutes ==
    (Ec2Routes \cup NoclRoutes) \ {"/meta-data/", "/meta-data/public-keys"}

\* C4 amended: when the registry has no VM for the caller's address, or the
\* lookup fails, every endpoint that resolves the VM (all but the EC2 root
\* listing and the public-keys redirect) answers 500 with an empty body.
C4_LookupFailureResolvingEndpoints500 ==
    \A r \in Requests :
        (/\ Done(r)
         /\ r.route \in ResolvingRoutes
         /\ \/ Unchanged(r) /\ vmreg[CallerIP(r)] = NoVM
            \/ r.findCalls = 1 /\ r.found.err) =>
            r.status = 500 /\ r.body = <<>> /\ ~r.panicked

C4_Witness ==
    \E r \in Requests :
        /\ Done(r) /\ r.route \in {"/meta-data/hostname", "/user-data"}
        /\ CallerIP(r) = "192.168.1.1" /\ vmreg["192.168.1.1"] = NoVM
        /\ r.findCalls = 1 /\ r.found.err
        /\ r.status = 500

\* C5: public-keys/ for n fetched keys is 200 with exactly n entries, the
\* i-th being "<i>=<label of the i-th key>", in the order fetched; n = 0 is
\* a 200 with no entry.
C5_PublicKeysListing ==
    \A r \in Requests :
        (r.route = "/meta-data/public-keys/" /\ Done(r) /\ Fetched(r)) =>
            /\ r.status = 200
            /\ Len(r.body) = Len(r.fetched.Keys)
            /\ \A i \in 0..(Len(r.fetched.Keys) - 1) :
                   r.body[i + 1] = Digits[i + 1] \o "=" \o r.fetched.Keys[i + 1].Name

C5_Witness ==
    \E r \in Requests :
        /\ r.route = "/meta-data/public-keys/" /\ Done(r) /\ Fetched(r)
        /\ r.fetched.Keys = <<Key1, Key0>>
        /\ r.body = <<"0=k1", "1=k0">>

\* C6: the key at index k is "algo material comment" both as the body of
\* public-keys/k/openssh-key and as the k-th element of the NoCloud
\* document's public-keys list; the label is in neither.
C6_KeyTextSameInBothRenderers ==
    \A r \in Requests :
        (Done(r) /\ r.status = 200 /\ Fetched(r)) =>
            /\ r.route = "/meta-data/public-keys/{key}/openssh-key" =>
                   r.body = <<KeyText(r.fetched.Keys[Atoi(r.key).n + 1])>>
            /\ r.route = "/meta-data" =>
                   \A k \in 0..(Len(r.fetched.Keys) - 1) :
                       r.body[3 + k + 1] = "- " \o KeyText(r.fetched.Keys[k + 1])

C6_Witness ==
    \E r \in Requests :
        /\ Done(r) /\ r.status = 200 /\ Fetched(r)
        /\ r.route = "/meta-data"
        /\ r.fetched.Keys = <<Key0, Key1>>
        /\ r.body[5] = "- ssh-ed25519 BBBB host2"

\* C7: public-keys without trailing slash is always answered at once with a
\* 301 to the trailing-slash form on the metadata host, and no call to the
\* VM registry or the pubkey store is made or pending for it.
C7_RedirectTouchesNoBackend ==
    \A r \in Requests :
        r.route = "/meta-data/public-keys" =>
            /\ Done(r)
            /\ r.status = 301
            /\ r.location = "http://169.254.169.254/2009-04-04/meta-data/public-keys/"
            /\ r.findCalls = 0 /\ r.keysCalls = 0

C7_Witness ==
    \E r \in Requests :
        /\ r.route = "/meta-data/public-keys" /\ Done(r) /\ r.status = 301
        /\ CallerIP(r) = "192.168.1.1" /\ vmreg["192.168.1.1"] = NoVM

\* C8: for the VM name the lookup returned, EC2 hostname and the NoCloud
\* local-hostname are that name, and EC2 instance-id and the NoCloud
\* instance-id are "i-" followed by that name.
C8_InstanceIdIsDashName ==
    \A r \in Requests :
        (Done(r) /\ r.status = 200 /\ r.findCalls = 1) =>
            /\ r.route = "/meta-data/hostname" => r.body = <<r.found.Name>>
            /\ r.route = "/meta-data/instance-id" => r.body = <<"i-" \o r.found.Name>>
            /\ r.route = "/meta-data" =>
                   /\ r.body[1] = "local-hostname: " \o r.found.Name
                   /\ r.body[2] = "instance-id: i-" \o r.found.Name

C8_Witness ==
    \E r \in Requests :
        /\ Done(r) /\ r.status = 200 /\ r.route = "/meta-data"
        /\ r.found.Name = "vm-7"
        /\ r.body[2] = "instance-id: i-vm-7"

\* C9: a request gets at most one VM lookup and at most one key fetch; the
\* key fetch is issued only after its lookup succeeded, for the name the
\* lookup returned; a failed call ends the request with 500 and no further
\* call.
C9_OneCallEachInOrderNoRetry ==
    \A r \in Requests :
        /\ r.findCalls <= 1 /\ r.keysCalls <= 1
        /\ (r.pc = "getkeys" \/ r.keysCalls = 1) =>
               r.findCalls = 1 /\ ~r.found.err /\ r.vmName = r.found.Name
        /\ r.pc = "getkeys" => r.keysCalls = 0
        /\ r.pc = "find" => r.findCalls = 0 /\ r.keysCalls = 0
        /\ (r.found.err \/ r.fetched.err) =>
               Done(r) /\ r.status = 500 /\ r.body = <<>>
        /\ r.found.err => r.keysCalls = 0

C9_Witness ==
    \E r \in Requests :
        /\ Done(r) /\ r.route = "/user-data"
        /\ r.findCalls = 1 /\ r.keysCalls = 1 /\ r.fetched.err
        /\ r.status = 500

\* C10: a finished request that arrived after the last change of the
\* backends made its own lookup (and key fetch) and was answered from the
\* backends as they are now, whatever earlier requests were answered.
C10_AnsweredFromCurrentBackend ==
    \A r \in Requests :
        (Done(r) /\ Unchanged(r) /\ r.route \in ResolvingRoutes) =>
            LET vm == vmreg[CallerIP(r)]
            IN  /\ r.status = 200 => r.findCalls = 1 /\ r.found.Name = vm
                /\ (r.status = 200 /\ r.route \notin {"/meta-data/hostname",
                                                    "/meta-data/instance-id"}) =>
                       Fetched(r) /\ r.fetched.Keys = keystore[vm]
                /\ (r.status = 200 /\ r.route = "/meta-data/hostname") =>
                       r.body = <<vm>>
                /\ (r.status = 200 /\ r.route = "/meta-data/public-keys/") =>
                       Len(r.body) = Len(keystore[vm])
                /\ vm = NoVM => r.status = 500

C10_Witness ==
    \E i, j \in 1..Len(reqs) :
        /\ i < j
        /\ Done(reqs[i]) /\ Done(reqs[j])
        /\ reqs[i].remoteAddr = reqs[j].remoteAddr
        /\ reqs[i].route = "/meta-data/hostname" /\ reqs[j].route = "/meta-data/hostname"
        /\ reqs[i].status = 200 /\ reqs[j].status = 200
        /\ reqs[i].body = <<"vm-42">> /\ reqs[j].body = <<"vm-7">>
        /\ Unchanged(reqs[j])

\* C11: with the key list changing and requests interleaved, a finished
\* public-keys/{key}/openssh-key request that answers 200 returns the key at
\* its index in the list its own key fetch returned, whatever the store holds
\* by now and whatever other requests fetched; an index at or past the end
\* of that list is answered 500, and nothing is read past the end of it.
C11_KeyFromOwnFetch ==
    \A r \in Requests :
        (r.route = "/meta-data/public-keys/{key}/openssh-key" /\ Done(r)) =>
            /\ r.status = 200 =>
                   /\ Fetched(r)
                   /\ r.keyIdx \in 0..(Len(r.fetched.Keys) - 1)
                   /\ r.body = <<KeyText(r.fetched.Keys[r.keyIdx + 1])>>
            /\ (Fetched(r) /\ r.keyIdx >= Len(r.fetched.Keys)) =>
                   r.status = 500 /\ r.body = <<>> /\ ~r.panicked
            /\ r.panicked => r.keyIdx < 0

\* two requests for the same key, both arrived before the list changed: one
\* fetched the old list and got its key, the other fetched the new, shorter
\* list; the store no longer holds the list the first one answered from
C11_Witness ==
    \E i, j \in 1..Len(reqs) :
        /\ i # j
        /\ reqs[i].route = "/meta-data/public-keys/{key}/openssh-key"
        /\ reqs[j].route = "/meta-data/public-keys/{key}/openssh-key"
        /\ reqs[i].key = <<"0">> /\ reqs[j].key = <<"0">>
        /\ reqs[i].startVersion = 0 /\ reqs[j].startVersion = 0
        /\ Done(reqs[i]) /\ Done(reqs[j])
        /\ Fetched(reqs[i]) /\ Fetched(reqs[j])
        /\ reqs[i].vmName = reqs[j].vmName
        /\ reqs[i].fetched.Keys = <<Key0>> /\ reqs[j].fetched.Keys = <<>>
        /\ keystore[reqs[i].vmName] = <<>>
        /\ reqs[i].status = 200 /\ reqs[i].body = <<"ssh-rsa AAAA host1">>
        /\ reqs[j].status = 500

====
